---- MODULE Spec2Model ----
(***************************************************************************)
(* ThrottledClientSession (src/am_rewind/throttledclientsession.py): a     *)
(* rate-throttled aiohttp session.  A filler task pushes tokens into a     *)
(* bounded asyncio.Queue; _request pops one token for every request that   *)
(* is_limited() says is throttled, performs the HTTP call and counts it.   *)
(*                                                                         *)
(* Everything runs on one asyncio event loop: a task runs without          *)
(* interruption from one suspension point (an await that really waits) to  *)
(* the next, so one action of the model is one such run of one task.       *)
(* Strings (URLs, patterns) are sequences of one-character strings.        *)
(***************************************************************************)
EXTENDS Integers, Sequences, FiniteSets, TLC

\* ------------------------------------------------------------------ bounds
\* Number of _request calls issued on the session.
MaxRequests == 4
\* time.time() reads 0..MaxTime.
MaxTime == 1
\* Longest filter list of a session in FilterSpec.
MaxFilters == 2
MaxSetLimit == 2

\* ------------------------------------------------------- program constants
\* ThrottledClientSession._LOG_FILLER
LOG_FILLER == 20

\* get_args(HTTPmethod)
HTTPmethod ==
    {"GET", "POST", "PUT", "DELETE", "HEAD", "OPTIONS", "TRACE", "CONNECT", "PATCH"}

\* Python's None (a filter rule without a method).
None == "None"

\* is_HTTP_method(method)
is_HTTP_method(method) == method \in HTTPmethod

\* ----------------------------------------------------------------- inputs
Requests == 1..MaxRequests

\* Methods passed to _request / is_limited / add_filter; "BREW" and "get" are
\* not HTTP methods for is_HTTP_method (the test is case-sensitive).
Methods == {"GET", "POST", "BREW", "get"}

Str(s) == [kind |-> "str", atoms |-> s, dollar |-> FALSE]
Re(s, d) == [kind |-> "re", atoms |-> s, dollar |-> d]

\* URLs of the requests.
Urls ==
    { <<"/", "a">>, <<"/", "a", "/", "b">>, <<"/", "b">>, <<"x", "/", "a">> }

\* Url filters: str prefixes and compiled patterns ("." is any character,
\* dollar is a trailing "$").
Patterns ==
    { Str(<<"/", "a">>), Str(<<"/", "a", "/", "b">>),
      Re(<<"/", ".">>, FALSE), Re(<<"/", "a">>, TRUE), Re(<<"a">>, FALSE) }

\* --------------------------------------------------------------- the state
VARIABLES
    rate_limit,      \* self._rate_limit, in hundredths of a request per second
    qlen,            \* self._qlen, also the maxsize of self._queue
    limit_filtered,  \* self._limit_filtered
    filters,         \* self._filters: sequence of [method, pattern]
    queue,           \* number of tokens (None items) in self._queue
    getters,         \* self._queue._getters: requests with a pending future
    ready,           \* requests whose getter future was set, in the order they will run
    filler,          \* self._fillerTask: [kind, pc, i]
    req,             \* position of each _request call
    count,           \* self._count
    errors,          \* self._errors
    start_time,      \* self._start_time
    now,             \* the last value time.time() returned
    closePc,         \* position of close()
    pushed,          \* history: tokens the filler has put into the queue
    sleeps,          \* history: sleeps of the filler that have ended
    admitted,        \* history: limited requests that got past Queue.get()
    returned,        \* history: HTTP calls that returned a response
    failed,          \* history: HTTP calls that returned a response that is not ok
    raised,          \* history: HTTP calls that raised to the caller
    probe,           \* last direct call of add_filter / is_limited and its result
    statsOut,        \* last read of the statistics and its result
    win,             \* history: an observation window and the counters at its start
    retired,         \* the filler tasks _set_limit has replaced: where each one is
    awaited          \* the task close() waits for: 0 the filler, j the j-th replaced one

config == <<rate_limit, qlen, limit_filtered, filters>>
bucket == <<queue, getters, ready, filler, pushed, sleeps>>
stats == <<count, errors, start_time>>
calls == <<admitted, returned, failed, raised>>
aside == <<statsOut, win, retired, awaited>>
vars == <<rate_limit, qlen, limit_filtered, filters, queue, getters, ready, filler, req,
          count, errors, start_time, now, closePc, pushed, sleeps,
          admitted, returned, failed, raised, probe, statsOut, win, retired, awaited>>

NoProbe == [op |-> "none"]
NoStats == [op |-> "none"]
NoWindow == [open |-> FALSE]

Min(a, b) == IF a < b THEN a ELSE b

\* SubSeq that tolerates an empty range.
Drop(s, k) == IF k >= Len(s) THEN <<>> ELSE SubSeq(s, k + 1, Len(s))
Take(s, k) == IF k <= 0 THEN <<>> ELSE SubSeq(s, 1, Min(k, Len(s)))
Range(s) == { s[i] : i \in 1..Len(s) }

\* ------------------------------------------------- __init__: queue length
\* Rates are floats in the source; the model holds a rate as a whole number
\* of hundredths (2005 is 20.05 requests per second).
\* OverLogFiller with a fault: the threshold itself counts as over it.
OverLogFiller_ge(rate) == rate >= LOG_FILLER * 100

\* rate_limit > self._LOG_FILLER (lines 74, 187)
OverLogFiller(rate) == rate > LOG_FILLER * 100

\* floor(100 * e^n) for n = 0..6: a rate of r hundredths is <= e^n iff
\* r <= ExpFloor[n + 1].
ExpFloor == <<100, 271, 738, 2008, 5459, 14841, 40342>>

\* ceil(log(rate)) of math, for 1.00 <= rate <= 403.42: the least n with
\* rate <= e^n.
CeilLog(r) == CHOOSE n \in 0..6 : r <= ExpFloor[n + 1] /\ (n = 0 \/ r > ExpFloor[n])

\* self._qlen as __init__ sets it (lines 73-75).
QlenOf(rate) == IF OverLogFiller(rate) THEN CeilLog(rate) ELSE 1

\* --------------------------------------------------------- filter engine
\* url.startswith(s)
StartsWith(url, s) ==
    /\ Len(s) <= Len(url)
    /\ \A i \in 1..Len(s) : url[i] = s[i]

\* pattern.match(url) is not None: the pattern matches at position 0.
ReMatch(p, url) ==
    /\ Len(p.atoms) <= Len(url)
    /\ \A i \in 1..Len(p.atoms) : p.atoms[i] = "." \/ p.atoms[i] = url[i]
    /\ p.dollar => Len(url) = Len(p.atoms)

\* The two tests of is_limited on a rule's url_filter (lines 261-267).
UrlFilterMatches(url_filter, url) ==
    \/ url_filter.kind = "re" /\ ReMatch(url_filter, url)
    \/ url_filter.kind = "str" /\ StartsWith(url, url_filter.atoms)

\* ScanFilters with a fault: the final return sits inside the loop, only the
\* first rule is looked at.
ScanFilters_firstonly(fs, lf, method, url) ==
    IF fs = <<>> THEN ~lf
    ELSE LET f == Head(fs) IN
         IF (f.method = None \/ method = f.method) /\ UrlFilterMatches(f.pattern, url)
         THEN lf
         ELSE ~lf

\* ScanFilters with a fault: the loop keeps the answer of the last rule it
\* looked at, a later rule that does not match undoes an earlier match.
ScanFilters_lastonly(fs, lf, method, url) ==
    IF fs = <<>> THEN ~lf
    ELSE LET f == fs[Len(fs)] IN
         IF (f.method = None \/ method = f.method) /\ UrlFilterMatches(f.pattern, url)
         THEN lf
         ELSE ~lf

\* The for loop of is_limited (lines 259-269): the first rule that matches
\* returns limit_filtered; no rule matching returns not limit_filtered.
RECURSIVE ScanFilters(_, _, _, _)
ScanFilters(fs, lf, method, url) ==
    IF fs = <<>> THEN ~lf
    ELSE LET f == Head(fs) IN
         IF (f.method = None \/ method = f.method) /\ UrlFilterMatches(f.pattern, url)
         THEN lf
         ELSE ScanFilters(Tail(fs), lf, method, url)

\* How a call ends: it returns ret, or (exc) it raises.
Return(v) == [exc |-> FALSE, ret |-> v]
Raise == [exc |-> TRUE, ret |-> FALSE]

\* IsLimitedTry with a fault: the rate_limit == 0 test is missing.
IsLimitedTry_norate(rate, fs, lf, method, url) ==
    IF ~is_HTTP_method(method) THEN Raise
    ELSE Return(ScanFilters(fs, lf, method, url))

\* The try block of is_limited (lines 255-269) on a session with the given
\* fields; an unrecognized method raises ValueError.
IsLimitedTry(rate, fs, lf, method, url) ==
    IF rate = 0 THEN Return(FALSE)
    ELSE IF ~is_HTTP_method(method) THEN Raise
    ELSE Return(ScanFilters(fs, lf, method, url))

\* IsLimitedExcept with a fault: no except clause, the ValueError propagates.
IsLimitedExcept_reraise(outcome) == outcome

\* The except clause and what follows it (lines 270-272): the exception is
\* logged and the function returns True.
IsLimitedExcept(outcome) == IF outcome.exc THEN Return(TRUE) ELSE outcome

\* is_limited as its caller sees it.
IsLimitedOutcome(rate, fs, lf, method, url) ==
    IsLimitedExcept(IsLimitedTry(rate, fs, lf, method, url))

IsLimitedOf(rate, fs, lf, method, url) == IsLimitedOutcome(rate, fs, lf, method, url).ret

is_limited(method, url) == IsLimitedOf(rate_limit, filters, limit_filtered, method, url)

\* AddFilterAccepts with a fault: the test of the method is missing.
AddFilterAccepts_any(method) == TRUE

\* add_filter's guard (line 97): the call raises ValueError unless it holds.
AddFilterAccepts(method) == method = None \/ is_HTTP_method(method)

\* add_filter's append (line 102).
AppendFilter(fs, method, pattern) == Append(fs, [method |-> method, pattern |-> pattern])

\* One entry of the constructor's filters argument, as the loop of __init__
\* reads it (lines 84-90): a 2-tuple gives (method, url), a bare str or
\* pattern gives (None, url), anything else is left as (None, "").
Tuple(m, p) == [form |-> "tuple", method |-> m, pattern |-> p]
Bare(p) == [form |-> "bare", pattern |-> p]
Other == [form |-> "other"]
EntryMethod(e) == IF e.form = "tuple" THEN e.method ELSE None
EntryUrl(e) == IF e.form \in {"tuple", "bare"} THEN e.pattern ELSE Str(<<>>)

\* The loop of __init__ over filters (lines 83-91); ok = FALSE stands for the
\* ValueError add_filter raises, which aborts the construction.
RECURSIVE InitFilters(_, _)
InitFilters(acc, entries) ==
    IF entries = <<>> THEN [ok |-> TRUE, fs |-> acc]
    ELSE LET e == Head(entries) IN
         IF ~AddFilterAccepts(EntryMethod(e)) THEN [ok |-> FALSE, fs |-> acc]
         ELSE InitFilters(AppendFilter(acc, EntryMethod(e), EntryUrl(e)), Tail(entries))

\* -------------------------------------------------------- filler and queue
\* Which coroutine _set_limit starts for a rate (lines 187-190).
FillerKind(rate) ==
    IF OverLogFiller(rate) THEN "batched"
    ELSE IF rate > 0 THEN "simple"
    ELSE "none"

\* The task _set_limit creates: not yet run ("created"), or no task at all.
NewFiller(rate) ==
    [kind |-> FillerKind(rate),
     pc |-> IF FillerKind(rate) = "none" THEN "none" ELSE "created",
     i |-> 0]

\* BatchSize with a fault: _filler sleeps after every token, as _filler_simple.
BatchSize_one(kind, ql) == 1

\* Tokens one round of the filler's loop puts before it sleeps: one in
\* _filler_simple (line 214), self._qlen in _filler (lines 232-233).
BatchSize(kind, ql) == IF kind = "batched" THEN ql ELSE 1

\* Queue.full() of a queue with maxsize = self._qlen.
QueueFull(q, ql) == q >= ql

\* PutsNow with a fault: put_nowait semantics without the full() test, the
\* whole rest of the batch goes in.
PutsNow_unbounded(kind, ql, i, q) == BatchSize(kind, ql) - i

\* How many of the puts still due in this batch go through before the queue
\* is full and put() has to wait.
PutsNow(kind, ql, i, q) == Min(BatchSize(kind, ql) - i, IF QueueFull(q, ql) THEN 0 ELSE ql - q)

\* ----------------------------------------------------------- construction
\* __init__ (lines 66-93): the asserts hold for a number, a list and a bool;
\* a ValueError out of add_filter aborts the construction.
Build(rate, entries, lf) ==
    /\ InitFilters(<<>>, entries).ok
    /\ rate_limit = rate
    /\ qlen = QlenOf(rate)
    /\ limit_filtered = lf
    /\ filters = InitFilters(<<>>, entries).fs
    /\ queue = 0
    /\ getters = <<>>
    /\ ready = <<>>
    /\ filler = NewFiller(rate)
    /\ req = [r \in Requests |-> "idle"]
    /\ count = 0
    /\ errors = 0
    /\ now = 0
    /\ start_time = now
    /\ closePc = "open"
    /\ pushed = 0
    /\ sleeps = 0
    /\ admitted = 0
    /\ returned = 0
    /\ failed = 0
    /\ raised = 0
    /\ statsOut = NoStats
    /\ win = NoWindow
    /\ retired = <<>>
    /\ awaited = 0

\* A session constructed with valid arguments.
Construct(rate, entries, lf) ==
    /\ Build(rate, entries, lf)
    /\ probe = NoProbe

\* A session whose constructor call is kept, with its arguments.
ConstructCall(rate, entries, lf) ==
    /\ Build(rate, entries, lf)
    /\ probe = [op |-> "__init__", rate_limit |-> rate, filters |-> entries,
                limit_filtered |-> lf]

\* The sessions of Spec, as <<rate_limit, filters, limit_filtered>>.  The
\* rates: 0 (unlimited), 0.30 (_filler_simple), 20.05 (_filler, with
\* ceil(log(20.05)) = 3 tokens a batch) and 21 (_filler, 4 tokens a batch).
\* The filters: one exempted prefix as in parse_activity (lines 100-104), or
\* the two rules of a throttled set.
Sessions ==
    { <<0, <<Bare(Str(<<"/", "a">>))>>, FALSE>>,
      <<0, <<Tuple("GET", Str(<<"/", "a">>)), Tuple(None, Str(<<"/", "a", "/", "b">>))>>, TRUE>>,
      <<30, <<Bare(Str(<<"/", "a">>))>>, FALSE>>,
      <<2005, <<Tuple("GET", Str(<<"/", "a">>)), Tuple(None, Str(<<"/", "a", "/", "b">>))>>, TRUE>>,
      <<2100, <<Bare(Str(<<"/", "a">>))>>, FALSE>> }

Init == \E s \in Sessions : Construct(s[1], s[2], s[3])

\* ------------------------------------------------------------- _request
\* Queue.get_nowait() (the token is taken, the next putter is woken up)
\* followed by task_done().
FillerAfterGet(f) == IF f.pc = "blocked" THEN [f EXCEPT !.pc = "woken"] ELSE f

\* Where the request is once super()._request has been entered: a closed
\* aiohttp session raises RuntimeError at once, an open one sends the request.
EnterCall(closed) == IF closed THEN "done" ELSE "calling"

\* Lines 243-246 for a request that does not have to wait: the token, if the
\* request is limited, is taken and the HTTP call is entered.
Admit(r, lim) ==
    /\ queue' = IF lim THEN queue - 1 ELSE queue
    /\ filler' = IF lim THEN FillerAfterGet(filler) ELSE filler
    /\ admitted' = IF lim THEN admitted + 1 ELSE admitted
    /\ req' = [req EXCEPT ![r] = EnterCall(closePc = "closed")]
    /\ raised' = IF closePc = "closed" THEN raised + 1 ELSE raised
    /\ UNCHANGED getters

\* Queue.get() on an empty queue: a future is appended to _getters and awaited.
WaitForToken(r) ==
    /\ getters' = Append(getters, r)
    /\ req' = [req EXCEPT ![r] = "waiting"]
    /\ UNCHANGED <<queue, filler, admitted, raised>>

\* MustWait with a fault: get() never waits, it takes from an empty queue.
MustWait_never(lim, q) == FALSE

\* MustWait with a fault: the is_limited test is missing, every request
\* goes through Queue.get().
MustWait_always(lim, q) == q = 0

\* Whether Queue.get() has to wait (while self.empty()).
MustWait(lim, q) == lim /\ q = 0

\* A caller awaits session._request(method, url): the coroutine runs up to its
\* first suspension (lines 243-246).  Requests are numbered in the order they
\* are issued.
StartRequest(r, method, url) ==
    /\ req[r] = "idle"
    /\ \A r2 \in Requests : r2 < r => req[r2] # "idle"
    /\ IF MustWait(is_limited(method, url), queue)
       THEN WaitForToken(r)
       ELSE Admit(r, is_limited(method, url))
    /\ UNCHANGED <<config, ready, stats, now, closePc, pushed, sleeps, returned, failed, probe, aside>>

\* A request whose getter future was set runs again: Queue.get() tests
\* empty() again, and waits again if another request took the token.  The
\* event loop runs the woken requests in the order their futures were set.
WokenRun(r) ==
    /\ req[r] = "woken"
    /\ ready # <<>> /\ r = Head(ready)
    /\ ready' = Tail(ready)
    /\ IF MustWait(TRUE, queue) THEN WaitForToken(r) ELSE Admit(r, TRUE)
    /\ UNCHANGED <<config, stats, now, closePc, pushed, sleeps, returned, failed, probe, aside>>

Outcomes == {"ok", "fail", "exc"}

\* CountAfterResponse with a fault: a lost update, the counter is written from
\* a value read before the call was awaited (0 for the calls in flight
\* together from the start).
CountAfterResponse_lost(c) == 1

\* self._count += 1 (line 247)
CountAfterResponse(c) == c + 1

\* ErrorsAfterResponse with a fault: the resp.ok test is missing.
ErrorsAfterResponse_always(e, ok) == e + 1

\* if not resp.ok: self._errors += 1 (lines 248-249)
ErrorsAfterResponse(e, ok) == IF ok THEN e ELSE e + 1

\* Respond with a fault: the counters are updated in a finally clause, so a
\* call that raises is counted as a request and as an error.
Respond_finally(r, outcome) ==
    /\ req[r] = "calling"
    /\ req' = [req EXCEPT ![r] = "done"]
    /\ count' = CountAfterResponse(count)
    /\ errors' = ErrorsAfterResponse(errors, outcome = "ok")
    /\ returned' = IF outcome = "exc" THEN returned ELSE returned + 1
    /\ failed' = IF outcome = "fail" THEN failed + 1 ELSE failed
    /\ raised' = IF outcome = "exc" THEN raised + 1 ELSE raised
    /\ UNCHANGED <<config, bucket, start_time, now, closePc, admitted, probe, aside>>

\* super()._request returns a response (ok or not) or raises (lines 246-250).
Respond(r, outcome) ==
    /\ req[r] = "calling"
    /\ req' = [req EXCEPT ![r] = "done"]
    /\ count' = IF outcome = "exc" THEN count ELSE CountAfterResponse(count)
    /\ errors' = IF outcome = "exc" THEN errors ELSE ErrorsAfterResponse(errors, outcome = "ok")
    /\ returned' = IF outcome = "exc" THEN returned ELSE returned + 1
    /\ failed' = IF outcome = "fail" THEN failed + 1 ELSE failed
    /\ raised' = IF outcome = "exc" THEN raised + 1 ELSE raised
    /\ UNCHANGED <<config, bucket, start_time, now, closePc, admitted, probe, aside>>

\* ------------------------------------------------------------ the filler
\* WakeUp with a fault: the getters are woken from the right end of the deque.
WakeUp_last(gs, k) == SubSeq(gs, Len(gs) - Min(k, Len(gs)) + 1, Len(gs))

\* WakeUp with a fault: the futures are taken from the deque but not set.
WakeUp_lost(gs, k) == <<>>

\* Queue._wakeup_next(self._getters), once for each of k put_nowait calls:
\* the futures are taken from the left of the deque and set.
WakeUp(gs, k) == Take(gs, k)

\* FillerPuts with a fault: the sleep after the batch is missing, the next
\* round starts at the filler's next run.
FillerPuts_nosleep(i0) ==
    LET k == PutsNow(filler.kind, qlen, i0, queue)
        woken == Range(WakeUp(getters, k))
    IN  /\ queue' = queue + k
        /\ pushed' = pushed + k
        /\ getters' = Drop(getters, k)
        /\ ready' = ready \o WakeUp(getters, k)
        /\ req' = [r \in Requests |->
                     IF r \in woken THEN "woken" ELSE req[r]]
        /\ filler' = IF i0 + k = BatchSize(filler.kind, qlen)
                     THEN [filler EXCEPT !.pc = "woken", !.i = 0]
                     ELSE [filler EXCEPT !.pc = "blocked", !.i = i0 + k]

\* The filler runs from position i of its batch until put() has to wait on a
\* full queue or the batch is complete and it sleeps (lines 213-215, 231-234).
\* Each put_nowait wakes up the next getter.
FillerPuts(i0) ==
    LET k == PutsNow(filler.kind, qlen, i0, queue)
        woken == Range(WakeUp(getters, k))
    IN  /\ queue' = queue + k
        /\ pushed' = pushed + k
        /\ getters' = Drop(getters, k)
        /\ ready' = ready \o WakeUp(getters, k)
        /\ req' = [r \in Requests |->
                     IF r \in woken THEN "woken" ELSE req[r]]
        /\ filler' = IF i0 + k = BatchSize(filler.kind, qlen)
                     THEN [filler EXCEPT !.pc = "sleeping", !.i = 0]
                     ELSE [filler EXCEPT !.pc = "blocked", !.i = i0 + k]

\* The task's first run, or its run after a putter future was set.
FillerRun ==
    /\ filler.pc \in {"created", "woken"}
    /\ FillerPuts(filler.i)
    /\ UNCHANGED <<config, stats, now, closePc, sleeps, calls, probe, aside>>

\* sleep(wait) ends and the next round of the loop starts.
SleepEnds ==
    /\ filler.pc = "sleeping"
    /\ sleeps' = sleeps + 1
    /\ FillerPuts(0)
    /\ UNCHANGED <<config, stats, now, closePc, calls, probe, aside>>

\* Cancel with a fault: the task is left to run.
Cancel_noop(f) == f

\* Cancel with a fault: a task whose putter future is already set is left
\* to finish its put().
Cancel_latewake(f) ==
    IF f.pc = "created" THEN [f EXCEPT !.pc = "unstarted"]
    ELSE IF f.pc \in {"blocked", "sleeping"} THEN [f EXCEPT !.pc = "cancelling"]
    ELSE f

\* Task.cancel() as close() and _set_limit() call it: a task that never ran
\* is cancelled without running, a suspended one gets CancelledError thrown
\* in at its await; a task that is done is left alone.
Cancel(f) ==
    IF f.pc = "created" THEN [f EXCEPT !.pc = "unstarted"]
    ELSE IF f.pc \in {"blocked", "woken", "sleeping"} THEN [f EXCEPT !.pc = "cancelling"]
    ELSE f

\* The cancelled task's next run: the filler's except clause logs and the
\* coroutine returns (lines 216-217, 235-236); a task that never ran ends
\* cancelled.
FillerCancelled ==
    /\ filler.pc \in {"cancelling", "unstarted"}
    /\ filler' = [filler EXCEPT !.pc = IF filler.pc = "unstarted" THEN "cancelled" ELSE "finished"]
    /\ UNCHANGED <<config, queue, getters, ready, pushed, sleeps, req, stats, now, closePc, calls, probe, aside>>

FillerDone(f) == f.pc \in {"finished", "cancelled"}

\* ---------------------------------------------------------------- close
\* self.rate (line 125) divides by time.time() - self._start_time.
RateDefined(t, t0) == t - t0 # 0

\* close() up to its first suspension (lines 196-200), time.time() reading
\* t: the stats line is built first, which raises ZeroDivisionError when the
\* clock reads start_time; then the filler is cancelled and awaited, or, with
\* no filler, super().close() is reached directly.
CloseBegin(t) ==
    /\ closePc = "open"
    /\ t >= now
    /\ now' = t
    /\ IF ~RateDefined(t, start_time)
       THEN closePc' = "raised" /\ UNCHANGED filler
       ELSE IF filler.pc = "none"
       THEN closePc' = "closed" /\ UNCHANGED filler
       ELSE closePc' = "waiting" /\ filler' = Cancel(filler)
    /\ UNCHANGED <<config, queue, getters, ready, pushed, sleeps, req, stats, calls, probe, aside>>

\* The task close() passed to wait_for (line 200): the filler task as it
\* was when close() cancelled it, also when _set_limit has replaced it since.
AwaitedPc == IF awaited = 0 THEN filler.pc ELSE retired[awaited]

\* What wait_for(self._fillerTask, timeout=0.5) gives close() once the
\* awaited task is done: the result of a task that ended by returning (the
\* filler catches CancelledError), CancelledError for a task that ended
\* cancelled.  The cancelled task is done after its next run, which the loop
\* has queued before the 0.5 s timer, so the wait never runs out of time.
TeardownOutcome(pc) ==
    IF pc = "cancelled" THEN "CancelledError" ELSE "returned"

\* CloseAfterWait with a fault: the except clause for CancelledError is
\* missing.
CloseAfterWait_uncaught(outcome) ==
    IF outcome = "CancelledError" THEN "raised" ELSE "closed"

\* Lines 199-205: TimeoutError and CancelledError are caught and logged, and
\* super().close() follows in every case.
CloseAfterWait(outcome) == "closed"

\* close() resumes once the awaited task is done (lines 200-205).
CloseFinish ==
    /\ closePc = "waiting"
    /\ FillerDone([pc |-> AwaitedPc])
    /\ closePc' = CloseAfterWait(TeardownOutcome(AwaitedPc))
    /\ UNCHANGED <<config, bucket, req, stats, now, calls, probe, aside>>

\* The values time.time() can return (the wall clock may stand still).
Times == 0..MaxTime

\* ------------------------------------------------------- specifications
Next ==
    \/ \E r \in Requests, method \in Methods, url \in Urls : StartRequest(r, method, url)
    \/ \E r \in Requests : WokenRun(r)
    \/ \E r \in Requests, outcome \in Outcomes : Respond(r, outcome)
    \/ FillerRun
    \/ SleepEnds
    \/ FillerCancelled
    \/ \E t \in Times : CloseBegin(t)
    \/ CloseFinish

Spec == Init /\ [][Next]_vars

\* ------------------------------------------- the filter engine on its own
\* Sessions of every filter list up to MaxFilters rules, on which add_filter
\* and is_limited are called directly.
FilterRates == {0, 30}

FilterEntries ==
    { Tuple(m, p) : m \in {None, "GET"}, p \in Patterns } \cup { Bare(p) : p \in Patterns }

EntryLists == UNION { [1..n -> FilterEntries] : n \in 0..MaxFilters }

FilterInit ==
    \E rate \in FilterRates, entries \in EntryLists, lf \in BOOLEAN :
        Construct(rate, entries, lf)

\* add_filter(filter=pattern, method=method) (lines 95-102).
AddFilterCall(pattern, method) ==
    /\ Len(filters) < MaxFilters
    /\ filters' = IF AddFilterAccepts(method)
                  THEN AppendFilter(filters, method, pattern)
                  ELSE filters
    /\ probe' = [op |-> "add_filter", method |-> method, pattern |-> pattern,
                 raised |-> ~AddFilterAccepts(method)]
    /\ UNCHANGED <<rate_limit, qlen, limit_filtered, bucket, req, stats, now, closePc, calls, aside>>

\* is_limited(method, url) (lines 252-272).
IsLimitedCall(method, url) ==
    /\ probe' = [op |-> "is_limited", method |-> method, url |-> url,
                 outcome |-> IsLimitedOutcome(rate_limit, filters, limit_filtered,
                                              method, url)]
    /\ UNCHANGED <<config, bucket, req, stats, now, closePc, calls, aside>>

FilterNext ==
    \/ \E p \in Patterns, m \in Methods \cup {None} : AddFilterCall(p, m)
    \/ \E m \in Methods, u \in Urls : IsLimitedCall(m, u)

FilterSpec == FilterInit /\ [][FilterNext]_vars

\* ------------------------------------------------ the constructor's inputs
\* Rates given to the constructor: negative, 0, under and at _LOG_FILLER,
\* 20.05, 21, 50 and 55.
CtorRates == {-30, 0, 30, 2000, 2005, 2100, 5000, 5500}

\* Entries of the filters argument: a str, a 2-tuple with a method, a 2-tuple
\* whose method is not an HTTP method, and an entry that is neither a 2-tuple
\* nor a str or pattern (a 3-tuple, a number).
CtorEntries ==
    { Bare(Str(<<"/", "a">>)),
      Tuple("GET", Str(<<"/", "a", "/", "b">>)),
      Tuple("BREW", Str(<<"/", "a">>)),
      Other }

CtorLists == UNION { [1..n -> CtorEntries] : n \in 0..MaxFilters }

CtorInit ==
    \E rate \in CtorRates, entries \in CtorLists, lf \in BOOLEAN :
        ConstructCall(rate, entries, lf)

\* After the constructor: requests are issued and the filler runs.
CtorNext ==
    \/ \E r \in Requests, method \in Methods, url \in Urls : StartRequest(r, method, url)
    \/ \E r \in Requests : WokenRun(r)
    \/ FillerRun
    \/ SleepEnds

CtorSpec == CtorInit /\ [][CtorNext]_vars

\* ------------------------------------------------- admissions in a window
\* An observer starts a time window: the counters and whether the filler is
\* in its sleep are noted.  The sleep lasts qlen / rate_limit (lines 210,
\* 228), and the filler's own steps take time, so a window no longer than
\* that holds the end of at most one sleep, and only of a sleep that was
\* under way when the window began.
OpenWindow ==
    /\ ~win.open
    /\ win' = [open |-> TRUE, admitted |-> admitted, pushed |-> pushed,
               sleeps |-> sleeps, asleep |-> (filler.pc = "sleeping")]
    /\ UNCHANGED <<config, bucket, req, stats, now, closePc, calls, probe, statsOut, retired, awaited>>

\* The window has not yet outlasted one sleep of the filler.
InWindow ==
    /\ win.open
    /\ \/ sleeps = win.sleeps
       \/ win.asleep /\ sleeps = win.sleeps + 1

\* The sessions of BurstSpec: the simple filler, and the batched one with 3
\* tokens a batch.
BurstSessions == { s \in Sessions : s[1] \in {30, 2005} }

BurstInit == \E s \in BurstSessions : Construct(s[1], s[2], s[3])

BurstNext ==
    \/ \E r \in Requests, method \in Methods, url \in Urls : StartRequest(r, method, url)
    \/ \E r \in Requests : WokenRun(r)
    \/ FillerRun
    \/ SleepEnds
    \/ OpenWindow

BurstSpec == BurstInit /\ [][BurstNext]_vars

\* ------------------------------------------------- changing the rate limit
\* The rates a live session is given.
NewRates == {0, 30, 2100}

\* self._rate_limit = newRate followed by self._set_limit() (lines 182-192):
\* the filler task, if any, is cancelled and dropped, and a task for the
\* new rate is created; _qlen and _queue stay as __init__ made them.
SetLimit(newRate) ==
    /\ Len(retired) < MaxSetLimit
    /\ rate_limit' = newRate
    /\ retired' = IF filler.pc = "none" THEN retired ELSE Append(retired, Cancel(filler).pc)
    /\ filler' = NewFiller(newRate)
    /\ probe' = [op |-> "_set_limit", rate_limit |-> newRate]
    /\ awaited' = IF closePc = "waiting" /\ awaited = 0 THEN Len(retired) + 1 ELSE awaited
    /\ UNCHANGED <<qlen, limit_filtered, filters, queue, getters, ready, pushed, sleeps,
                   req, stats, now, closePc, calls, statsOut, win>>

\* The next run of a task _set_limit has cancelled: as FillerCancelled.
RetiredEnds(j) ==
    /\ j \in 1..Len(retired)
    /\ retired[j] \in {"cancelling", "unstarted"}
    /\ retired' = [retired EXCEPT ![j] =
                      IF retired[j] = "unstarted" THEN "cancelled" ELSE "finished"]
    /\ UNCHANGED <<config, bucket, req, stats, now, closePc, calls, probe, statsOut, win, awaited>>

\* The sessions of ReconfSpec: simple filler (qlen = 1) and batched filler
\* (qlen = 4).  close() is called once the clock has advanced.
ReconfSessions == { s \in Sessions : s[1] \in {30, 2100} }

ReconfInit == \E s \in ReconfSessions : Construct(s[1], s[2], s[3])

ReconfNext ==
    \/ \E r \in Requests, method \in Methods, url \in Urls : StartRequest(r, method, url)
    \/ \E r \in Requests : WokenRun(r)
    \/ FillerRun
    \/ SleepEnds
    \/ \E newRate \in NewRates : SetLimit(newRate)
    \/ \E j \in 1..MaxSetLimit : RetiredEnds(j)
    \/ CloseBegin(MaxTime)
    \/ FillerCancelled
    \/ CloseFinish

ReconfSpec == ReconfInit /\ [][ReconfNext]_vars

\* ------------------------------------------------- an open session, fairly
\* A session with a rate limit that is never closed.  The event loop runs
\* every task that is ready (the filler after its creation or once its
\* putter future is set, a request once its getter future is set), and
\* every sleep ends.
LiveSessions == { s \in Sessions : s[1] \in {30, 2005} }

LiveInit == \E s \in LiveSessions : Construct(s[1], s[2], s[3])

LiveNext ==
    \/ \E r \in Requests, method \in Methods, url \in Urls : StartRequest(r, method, url)
    \/ \E r \in Requests : WokenRun(r)
    \/ \E r \in Requests, outcome \in Outcomes : Respond(r, outcome)
    \/ FillerRun
    \/ SleepEnds

LiveSpec ==
    /\ LiveInit
    /\ [][LiveNext]_vars
    /\ WF_vars(FillerRun)
    /\ WF_vars(SleepEnds)
    /\ \A r \in Requests : WF_vars(WokenRun(r))

\* ------------------------------------------------------- the statistics
\* The values time.time() can return to the reads of the statistics: one
\* more than Times, so that the clock can advance after a reset.
StatsTimes == 0..(MaxTime + 1)

\* The rate property (line 125): self._count / (time.time() - self._start_time),
\* kept as the pair <<dividend, divisor>>.
Rate(c, t, t0) == <<c, t - t0>>

\* stats_dict (lines 144-153) with time.time() reading t: the four
\* statistics, or the ZeroDivisionError of the rate property.
StatsDict(c, e, rl, t, t0) ==
    IF RateDefined(t, t0)
    THEN [exc |-> FALSE, rate |-> Rate(c, t, t0), rate_limit |-> rl,
          count |-> c, errors |-> e]
    ELSE [exc |-> TRUE]

\* A read of session.stats_dict, time.time() reading t.
GetStats(t) ==
    /\ t >= now
    /\ now' = t
    /\ statsOut' = [op |-> "stats_dict",
                    res |-> StatsDict(count, errors, rate_limit, t, start_time)]
    /\ UNCHANGED <<config, bucket, req, stats, closePc, calls, probe, win, retired, awaited>>

\* ResetCounters with a fault: _errors is reset as well.
ResetCounters_errors(t1, t2) ==
    LET res == StatsDict(count, errors, rate_limit, t1, start_time)
    IN  /\ t1 >= now
        /\ t2 >= t1
        /\ res.exc => t2 = t1
        /\ statsOut' = [op |-> "reset_counters", res |-> res]
        /\ now' = t2
        /\ start_time' = IF res.exc THEN start_time ELSE t2
        /\ count' = IF res.exc THEN count ELSE 0
        /\ errors' = IF res.exc THEN errors ELSE 0
        /\ UNCHANGED <<config, bucket, req, closePc, calls, probe, win, retired, awaited>>

\* reset_counters() (lines 175-180): time.time() reads t1 in stats_dict and
\* t2 in the assignment of _start_time; when stats_dict raises nothing is
\* reset.  _errors is not reset.
ResetCounters(t1, t2) ==
    LET res == StatsDict(count, errors, rate_limit, t1, start_time)
    IN  /\ t1 >= now
        /\ t2 >= t1
        /\ res.exc => t2 = t1
        /\ statsOut' = [op |-> "reset_counters", res |-> res]
        /\ now' = t2
        /\ start_time' = IF res.exc THEN start_time ELSE t2
        /\ count' = IF res.exc THEN count ELSE 0
        /\ UNCHANGED <<config, bucket, req, errors, closePc, calls, probe, win, retired, awaited>>

\* The sessions of StatsSpec: an unlimited one and one with the simple filler.
StatsSessions == { s \in Sessions : s[1] \in {0, 30} /\ ~s[3] }

StatsInit == \E s \in StatsSessions : Construct(s[1], s[2], s[3])

StatsNext ==
    \/ \E r \in Requests, method \in Methods, url \in Urls : StartRequest(r, method, url)
    \/ \E r \in Requests : WokenRun(r)
    \/ \E r \in Requests, outcome \in Outcomes : Respond(r, outcome)
    \/ FillerRun
    \/ SleepEnds
    \/ \E t \in StatsTimes : GetStats(t)
    \/ \E t1, t2 \in StatsTimes : ResetCounters(t1, t2)

StatsSpec == StatsInit /\ [][StatsNext]_vars

\* =================================================================== claims
Done == { r \in Requests : req[r] = "done" }
InFlight == { r \in Requests : req[r] = "calling" }
Waiting == { r \in Requests : req[r] \in {"waiting", "woken"} }

\* C1: the throttled requests that got past admission are as many as the
\* tokens the filler pushed less the tokens still in the queue; they never
\* outnumber the tokens pushed, and every throttled request is waiting, or
\* has taken its token.
C1_TokenPerAdmission ==
    /\ admitted = pushed - queue
    /\ admitted <= pushed
    /\ Cardinality(Waiting) + admitted <= MaxRequests
    /\ admitted <= Cardinality(Done) + Cardinality(InFlight)

\* A batch was pushed, two throttled requests were admitted (one call is in
\* flight), a token is left and another request waits for the next one.
C1_Witness ==
    /\ admitted >= 2
    /\ pushed > admitted
    /\ InFlight # {}
    /\ Waiting # {}

\* C2: the admission queue holds 0..qlen tokens; the filler waits in put()
\* only on a full queue, and while requests wait in get() no token is in the
\* queue beyond those of the getters already woken up.
C2_QueueBounds ==
    /\ queue \in 0..qlen
    /\ filler.pc = "blocked" => queue = qlen
    /\ getters # <<>> => queue <= Cardinality({ r \in Requests : req[r] = "woken" })
    /\ \A r \in Requests : req[r] = "waiting" <=> r \in Range(getters)

\* The filler of the batched regime is stopped in put() by the full queue
\* (its tokens belong to getters woken up but not yet run) while another
\* request waits in get().
C2_Witness ==
    /\ filler.kind = "batched"
    /\ filler.pc = "blocked"
    /\ queue = qlen
    /\ getters # <<>>

\* C3: with a rate limit, the filler sleeps only after a complete batch of
\* qlen tokens (1 in the simple regime): after k sleeps have ended at least
\* qlen*k and at most qlen*(k+1) tokens have been pushed, exactly qlen*(k+1)
\* while it sleeps, and at most qlen*(k+1) throttled requests were admitted.
C3_BatchPerSleep ==
    rate_limit > 0 =>
        /\ filler.kind = "simple" => qlen = 1
        /\ pushed >= qlen * sleeps
        /\ pushed <= qlen * (sleeps + 1)
        /\ admitted <= qlen * (sleeps + 1)
        /\ filler.pc = "sleeping" => pushed = qlen * (sleeps + 1) /\ filler.i = 0
        /\ filler.pc \in {"blocked", "woken"} => pushed = qlen * sleeps + filler.i

\* The batched filler sleeps for the second time, two whole batches pushed.
C3_Witness ==
    /\ filler.kind = "batched"
    /\ filler.pc = "sleeping"
    /\ sleeps = 1
    /\ pushed = 2 * qlen
    /\ admitted > qlen

\* C4: with rate_limit = 0 there is no filler task, is_limited is false for
\* every method (recognized or not) and url, whatever the filters and
\* limit_filtered, and no request waits for or takes a token.
C4_UnlimitedNeverThrottles ==
    rate_limit = 0 =>
        /\ filler.pc = "none"
        /\ \A m \in Methods, u \in Urls :
               IsLimitedOutcome(rate_limit, filters, limit_filtered, m, u) = Return(FALSE)
        /\ Waiting = {}
        /\ getters = <<>>
        /\ queue = 0 /\ pushed = 0 /\ admitted = 0

\* An unlimited session whose filters name the throttled set has completed
\* all its requests, one of them to a url a filter matches.
C4_Witness ==
    /\ rate_limit = 0
    /\ limit_filtered
    /\ \E u \in Urls : ScanFilters(filters, limit_filtered, "GET", u)
    /\ Done = Requests
    /\ count >= 1

\* The claim's reading of a rule: its method is unset or the request's, and
\* its pattern matches the url: a str is a prefix of the url, a compiled
\* pattern matches some prefix of the url in full (the whole url with "$").
IsPrefix(p, url) == Len(p) <= Len(url) /\ SubSeq(url, 1, Len(p)) = p
MatchesInFull(atoms, w) ==
    Len(w) = Len(atoms) /\ \A i \in 1..Len(w) : atoms[i] \in {".", w[i]}
MatchesAtZero(pat, url) ==
    \E n \in 0..Len(url) :
        /\ MatchesInFull(pat.atoms, SubSeq(url, 1, n))
        /\ pat.dollar => n = Len(url)
RuleApplies(rule, method, url) ==
    /\ rule.method = None \/ rule.method = method
    /\ IF rule.pattern.kind = "str"
       THEN IsPrefix(rule.pattern.atoms, url)
       ELSE MatchesAtZero(rule.pattern, url)

\* C5: with a rate limit and a recognized method, is_limited returns
\* limit_filtered iff some rule of the filter list applies to (method, url),
\* and not limit_filtered otherwise; with limit_filtered false and the one
\* rule (None, P), exactly the urls with prefix P are not throttled.
C5_FilterDecides ==
    rate_limit > 0 =>
        /\ \A m \in Methods \cap HTTPmethod, u \in Urls :
             LET out == IsLimitedOutcome(rate_limit, filters, limit_filtered, m, u)
                 hit == \E i \in 1..Len(filters) : RuleApplies(filters[i], m, u)
             IN  /\ ~out.exc
                 /\ (out.ret = limit_filtered) <=> hit
                 /\ (~hit) => (out.ret = (~limit_filtered))
        /\ (/\ ~limit_filtered
            /\ Len(filters) = 1
            /\ filters[1].method = None
            /\ filters[1].pattern.kind = "str")
           => \A m \in Methods \cap HTTPmethod, u \in Urls :
                 is_limited(m, u) <=> (~IsPrefix(filters[1].pattern.atoms, u))

\* is_limited was called with a recognized method on a session whose first
\* rule does not apply to the request and whose second rule does, and
\* returned limit_filtered.
C5_Witness ==
    /\ rate_limit > 0
    /\ probe.op = "is_limited"
    /\ probe.method \in HTTPmethod
    /\ Len(filters) = 2
    /\ ~RuleApplies(filters[1], probe.method, probe.url)
    /\ RuleApplies(filters[2], probe.method, probe.url)
    /\ probe.outcome = Return(limit_filtered)

\* C6: with a rate limit, is_limited with an unrecognized method returns
\* true, without raising, for every url, filter list and limit_filtered.
C6_UnknownMethodThrottled ==
    rate_limit > 0 =>
        \A m \in Methods \ HTTPmethod, u \in Urls :
            IsLimitedOutcome(rate_limit, filters, limit_filtered, m, u) = Return(TRUE)

\* is_limited was called with an unrecognized method and a url that a rule
\* without method exempts (limit_filtered is false), and returned true.
C6_Witness ==
    /\ rate_limit > 0
    /\ ~limit_filtered
    /\ probe.op = "is_limited"
    /\ probe.method \notin HTTPmethod
    /\ \E i \in 1..Len(filters) :
           filters[i].method = None /\ RuleApplies(filters[i], probe.method, probe.url)
    /\ probe.outcome = Return(TRUE)

\* C7: the counters change only in the step in which a call returns its
\* response, never before: that step adds exactly 1 to count, and 1 to errors
\* iff the response is not ok; no other step changes them.
C7_CountedOnResponse ==
    [][ /\ returned' = returned + 1 =>
              /\ count' = count + 1
              /\ errors' = errors + (failed' - failed)
              /\ failed' - failed \in {0, 1}
        /\ returned' = returned => count' = count /\ errors' = errors
        /\ returned' \in {returned, returned + 1}
        /\ count' # count =>
              \E r \in Requests : req[r] = "calling" /\ req'[r] = "done"
      ]_vars

\* Two calls have returned, one of them with a failure status, while a third
\* is still in flight and not counted.
C7_Witness ==
    /\ count = 2
    /\ errors = 1
    /\ returned = 2
    /\ failed = 1
    /\ InFlight # {}

\* C8: once every request issued has ended, count is the number of calls that
\* returned a response and errors the number that returned a failure status,
\* whatever the order in which the calls were admitted and completed.
C8_NoLostUpdate ==
    (InFlight = {} /\ Waiting = {}) =>
        /\ count = Cardinality(Done) - raised
        /\ errors = failed
        /\ count = returned

\* All the requests have ended with a response, on a session with a filler;
\* some of them failed.
C8_Witness ==
    /\ rate_limit > 0
    /\ Done = Requests
    /\ raised = 0
    /\ admitted >= 2
    /\ count = MaxRequests
    /\ errors \in 1..(MaxRequests - 1)

\* C9: in the step in which a call raises, the request ends (the exception is
\* the caller's), count and errors stay as they are, and a request that has
\* ended never enters the transport again.
C9_ExceptionUncounted ==
    [][ /\ raised' # raised =>
              /\ raised' = raised + 1
              /\ count' = count
              /\ errors' = errors
              /\ \E r \in Requests :
                    /\ req[r] # "done" /\ req'[r] = "done"
                    /\ \A r2 \in Requests \ {r} : req'[r2] = req[r2]
        /\ \A r \in Requests : req[r] = "done" => req'[r] = "done"
        /\ \A r \in Requests : req[r] = "calling" => req'[r] \in {"calling", "done"}
      ]_vars

\* A call has raised after another had returned a failure status: the
\* counters show the one response only.
C9_Witness ==
    /\ raised = 1
    /\ count = 1
    /\ errors = 1
    /\ closePc = "open"
    /\ Cardinality(Done) = 2

\* C10: close() on a session with an active filler always completes.  As a
\* property of every state: once close() has been called on a session whose
\* filler has started, it has closed the underlying session, or it is waiting
\* for the cancelled filler and the filler's ending or the end of the wait is
\* enabled.
C10_CloseCompletes ==
    (filler.pc \notin {"none", "created"} /\ closePc # "open") =>
        \/ closePc = "closed"
        \/ closePc = "waiting" /\ ENABLED (FillerCancelled \/ CloseFinish)

\* C11: the teardown of the filler never makes close() raise.  Once close()
\* has cancelled the filler and waits for it, whether the task ends by
\* returning or ends cancelled, the cancelled filler's ending or close()'s
\* next step is enabled, close() leaves the wait only by closing the
\* underlying session, and a closed session stays closed; close() raises
\* only from the step that builds the stats line.
C11_TeardownNeverRaises ==
    [][ /\ closePc = "waiting" =>
              /\ closePc' \in {"waiting", "closed"}
              /\ ENABLED (FillerCancelled \/ CloseFinish)
              /\ (FillerDone(filler) /\ closePc' # closePc) => closePc' = "closed"
        /\ closePc' = "raised" => closePc \in {"open", "raised"}
        /\ closePc = "closed" => closePc' = "closed"
      ]_vars

\* The filler, cancelled by close() before it ever ran, has ended
\* cancelled: wait_for is about to raise CancelledError into close() while
\* a request waits for a token.
C11_Witness ==
    /\ closePc = "waiting"
    /\ filler.pc = "cancelled"
    /\ TeardownOutcome(AwaitedPc) = "CancelledError"
    /\ Waiting # {}

\* C12: reset_counters() returns rate, rate_limit, count and errors as they
\* were just before the reset and sets count to 0, and a read of the
\* statistics that follows it at once reports count = 0.
C12_ResetReturnsSnapshot ==
    [][ /\ (\E t1, t2 \in StatsTimes : ResetCounters(t1, t2)) =>
              /\ ~statsOut'.res.exc
              /\ statsOut'.res.count = count
              /\ statsOut'.res.errors = errors
              /\ statsOut'.res.rate_limit = rate_limit
              /\ \E t \in StatsTimes :
                    t > start_time /\ statsOut'.res.rate = <<count, t - start_time>>
              /\ count' = 0
        /\ (statsOut.op = "reset_counters" /\ \E t \in StatsTimes : GetStats(t)) =>
              /\ ~statsOut'.res.exc
              /\ statsOut'.res.count = 0
      ]_vars

\* C18: the rate is defined whenever it is read: no read of the statistics,
\* by stats_dict or by reset_counters, fails, and the rate it returns has a
\* strictly positive divisor.
C18_RateAlwaysDefined ==
    statsOut.op # "none" =>
        /\ ~statsOut.res.exc
        /\ statsOut.res.rate[2] > 0

\* C19: at construction the threshold 20 selects the filler and the queue:
\* a rate in (0, 20] gets the simple filler and qlen = 1 (20 itself
\* included), a rate over 20 gets the batched filler and qlen =
\* ceil(ln(rate)): 3 for 20.05, 4 for 21 and 50, 5 for 55; the queue never
\* holds more than qlen tokens and the filler is stopped by a queue of
\* exactly qlen.
C19_ThresholdSelectsRegime ==
    (probe.op = "__init__" /\ probe.rate_limit > 0) =>
        LET r == probe.rate_limit
            ceilLn == IF r = 2005 THEN 3
                      ELSE IF r \in {2100, 5000} THEN 4
                      ELSE IF r = 5500 THEN 5
                      ELSE 0
        IN  /\ r <= 2000 => filler.kind = "simple" /\ qlen = 1
            /\ r > 2000 => filler.kind = "batched" /\ qlen = ceilLn
            /\ r = 5000 => qlen = 4
            /\ queue <= qlen
            /\ filler.pc = "blocked" => queue = qlen

\* A session constructed with rate 50 has the batched filler, which has
\* filled the queue with 4 tokens and is stopped in put().
C19_Witness ==
    /\ probe.op = "__init__"
    /\ probe.rate_limit = 5000
    /\ filler.kind = "batched"
    /\ filler.pc = "blocked"
    /\ queue = 4
    /\ qlen = 4

\* C16: no session has a negative rate limit, so that in no session
\* is_limited returns true for some request while the session has no filler
\* to fill its queue.
C16_NoNegativeRate ==
    /\ rate_limit >= 0
    /\ (\E m \in Methods, u \in Urls : is_limited(m, u)) => filler.kind # "none"
    /\ Waiting # {} => filler.kind # "none"

\* The claim's reading of a well-formed entry of the filters argument: a str
\* or compiled pattern, or a 2-tuple whose method is None or an HTTP method.
WellFormedEntry(e) ==
    \/ e.form = "bare"
    \/ e.form = "tuple" /\ (e.method = None \/ e.method \in HTTPmethod)

\* C17: a session exists only if every entry of the filters argument was
\* well formed, and each of its rules is the rule of a well-formed entry:
\* no rule stands for a malformed entry, in particular no rule that matches
\* every url.
C17_MalformedFilterFails ==
    probe.op = "__init__" =>
        /\ \A i \in 1..Len(probe.filters) : WellFormedEntry(probe.filters[i])
        /\ Len(filters) = Len(probe.filters)
        /\ \A i \in 1..Len(filters) :
               WellFormedEntry(probe.filters[i]) /\ filters[i].pattern = probe.filters[i].pattern

\* C13 as claimed: a request that waited passes admission only when no
\* request issued before it, which therefore began to wait before it, is
\* still waiting for a token.
C13_FifoAdmission ==
    [][ \A b \in Requests :
          (req[b] = "woken" /\ req'[b] \in {"calling", "done"}) =>
              \A a \in Requests : a < b => req[a] \notin {"waiting", "woken"}
      ]_vars

\* C13 as the code has it: the tokens wake the waiting requests in the
\* order of the wait queue.  A request starts to wait at the tail of the
\* queue; the requests a step wakes are those at its head, and they run in
\* the order they were woken; a woken request passes admission iff a token
\* is still in the queue when it runs, and otherwise starts to wait again
\* at the tail.
C13_FifoWakeOrder ==
    [][ LET newly == { r \in Requests : req[r] = "waiting" /\ req'[r] = "woken" }
            k == Cardinality(newly)
        IN  /\ newly = { getters[i] : i \in 1..k }
            /\ k > 0 => ready' = ready \o SubSeq(getters, 1, k)
            /\ k > 0 => getters' = SubSeq(getters, k + 1, Len(getters))
            /\ \A r \in Requests :
                  /\ (req[r] = "woken" /\ req'[r] # "woken") =>
                        /\ r = Head(ready)
                        /\ ready' = Tail(ready)
                        /\ req'[r] = "waiting" <=> queue = 0
                        /\ req'[r] \in {"calling", "done"} <=> queue' = queue - 1
                  /\ (req[r] # "waiting" /\ req'[r] = "waiting") =>
                        getters' = Append(getters, r)
      ]_vars

\* A request that began to wait first has lost its token to a request that
\* arrived after it was woken: it waits again, behind a request that began
\* to wait after it.
C13_Witness ==
    \E i, j \in 1..Len(getters) :
        /\ i < j
        /\ getters[i] > getters[j]
        /\ admitted >= 1

\* C14 as claimed: in a time window no longer than one sleep of the filler
\* at most qlen throttled requests pass admission.
C14_NoBurst ==
    InWindow => admitted - win.admitted <= qlen

\* C14 as the code has it: in a time window no longer than one sleep of the
\* filler the throttled requests that pass admission are at most the tokens
\* in the queue when the window began, which are at most qlen, plus the
\* tokens pushed within the window, which are at most qlen: 2 * qlen in all.
C14_BurstOfTwoBatches ==
    InWindow =>
        /\ win.pushed - win.admitted \in 0..qlen
        /\ pushed - win.pushed \in 0..qlen
        /\ admitted - win.admitted <= (win.pushed - win.admitted) + (pushed - win.pushed)
        /\ admitted - win.admitted <= 2 * qlen

\* After an idle period (the queue full, the filler stopped in put()) a
\* window began, and within it, with no sleep ending, the requests took the
\* tokens of the queue and the tokens the filler pushed next: more than
\* qlen were admitted.
C14_Witness ==
    /\ InWindow
    /\ ~win.asleep
    /\ sleeps = win.sleeps
    /\ win.pushed - win.admitted = qlen
    /\ pushed - win.pushed >= 1
    /\ admitted - win.admitted > qlen

\* C15: once the rate limit of a live session has been changed, the filler
\* and the queue are those of the new rate: no filler for 0, the simple
\* filler with qlen = 1 for 0.30, the batched filler with qlen = 4 tokens a
\* batch and as queue capacity for 21, and the replaced filler is cancelled.
C15_LimitChangeResizes ==
    (probe.op = "_set_limit" /\ closePc = "open") =>
        /\ rate_limit = probe.rate_limit
        /\ rate_limit = 0 => filler.kind = "none"
        /\ rate_limit = 30 =>
              filler.kind = "simple" /\ qlen = 1 /\ BatchSize(filler.kind, qlen) = 1
        /\ rate_limit = 2100 =>
              filler.kind = "batched" /\ qlen = 4 /\ BatchSize(filler.kind, qlen) = 4
        /\ \A j \in 1..Len(retired) :
              retired[j] \in {"cancelling", "unstarted", "finished", "cancelled"}

\* The filler tasks that can still run: created and not cancelled.
LiveFillers ==
    { j \in 1..Len(retired) : retired[j] \in {"created", "blocked", "woken", "sleeping"} }

\* C20: at most one filler task that is not cancelled exists, whatever
\* _set_limit and close() calls were made, and only that task pushes; on an
\* open session it exists iff rate_limit > 0; every task _set_limit replaced
\* is cancelled or has ended.
C20_SingleFiller ==
    /\ Cardinality(LiveFillers)
         + (IF filler.pc \in {"created", "blocked", "woken", "sleeping"} THEN 1 ELSE 0) <= 1
    /\ LiveFillers = {}
    /\ closePc = "open" =>
          (filler.pc \in {"created", "blocked", "woken", "sleeping"} <=> rate_limit > 0)

\* The rate limit was changed twice: the first filler has ended after its
\* cancellation, the second, cancelled before it ever ran, has not yet, and
\* the third has pushed a batch and sleeps.
C20_Witness ==
    /\ Len(retired) = 2
    /\ retired[1] = "finished"
    /\ retired[2] = "unstarted"
    /\ filler.pc = "sleeping"
    /\ closePc = "open"
    /\ rate_limit > 0

\* C21: a request for which is_limited returns false enters the HTTP call
\* in the step in which it is issued and leaves the queue, the waiting
\* getters, the woken getters and the filler as they are, whatever the queue
\* holds and whoever waits; a request starts to wait only if is_limited
\* returns true for it and the queue is empty, and a woken one waits again
\* only on an empty queue.
C21_UnlimitedPassesUntouched ==
    [][ \A r \in Requests :
          /\ \A m \in Methods, u \in Urls :
                StartRequest(r, m, u) =>
                    /\ (~IsLimitedOutcome(rate_limit, filters, limit_filtered, m, u).ret) =>
                          /\ req'[r] \in {"calling", "done"}
                          /\ queue' = queue
                          /\ getters' = getters
                          /\ ready' = ready
                          /\ filler' = filler
                          /\ admitted' = admitted
                    /\ req'[r] = "waiting" =>
                          /\ IsLimitedOutcome(rate_limit, filters, limit_filtered, m, u).ret
                          /\ queue = 0
          /\ (req[r] # "waiting" /\ req'[r] = "waiting") =>
                req[r] \in {"idle", "woken"} /\ queue = 0 /\ rate_limit # 0
      ]_vars

\* On a session with a rate limit an exempted request is in its HTTP call,
\* no token was ever taken, the queue is empty and a request issued before
\* it still waits for a token.
C21_Witness ==
    /\ rate_limit > 0
    /\ queue = 0
    /\ admitted = 0
    /\ \E r1, r2 \in Requests :
           r1 < r2 /\ req[r1] = "waiting" /\ req[r2] = "calling"

\* C22: a reset_counters() call leaves errors, rate_limit, the filters,
\* limit_filtered, qlen, the queue, its getters, the filler and the requests
\* as they are; when it returns, start_time is the clock's value and count
\* is 0 (when stats_dict raises in it, they are unchanged too).  In every
\* other step count and errors do not decrease, and errors never decreases.
\* As long as no reset has returned (start_time is still the construction
\* time 0) errors <= count.
C22_ResetFrame ==
    [][ /\ start_time = 0 => errors <= count
        /\ start_time' = 0 => errors' <= count'
        /\ (\E t1, t2 \in StatsTimes : ResetCounters(t1, t2)) =>
              /\ errors' = errors
              /\ UNCHANGED <<rate_limit, filters, limit_filtered, qlen>>
              /\ UNCHANGED <<queue, getters, ready, filler, req, closePc>>
              /\ IF statsOut'.res.exc
                 THEN count' = count /\ start_time' = start_time
                 ELSE count' = 0 /\ start_time' = now'
        /\ (~\E t1, t2 \in StatsTimes : ResetCounters(t1, t2)) =>
              count' >= count /\ start_time' = start_time
        /\ errors' >= errors
      ]_vars

\* reset_counters() has returned a snapshot with errors after some calls
\* had failed: count is back to 0, errors is not, so errors > count; the
\* filler still sleeps on its token.
C22_Witness ==
    /\ statsOut.op = "reset_counters"
    /\ ~statsOut.res.exc
    /\ statsOut.res.errors >= 1
    /\ count = 0
    /\ errors = statsOut.res.errors
    /\ errors > count
    /\ start_time > 0
    /\ filler.pc = "sleeping"

\* C23: an add_filter(pattern, method) call whose method is neither None nor
\* an HTTP method raises and leaves the filter list as it is; any other call
\* does not raise and appends the one rule (method, pattern) at the end of
\* the list, the earlier rules staying in place.  Before and after every
\* step the method of every rule is None or an HTTP method.
C23_AddFilterAppendsOrRaises ==
    [][ /\ \A p \in Patterns, m \in Methods \cup {None} :
              AddFilterCall(p, m) =>
                  IF m = None \/ m \in HTTPmethod
                  THEN /\ ~probe'.raised
                       /\ Len(filters') = Len(filters) + 1
                       /\ SubSeq(filters', 1, Len(filters)) = filters
                       /\ filters'[Len(filters')] = [method |-> m, pattern |-> p]
                  ELSE /\ probe'.raised
                       /\ filters' = filters
        /\ \A i \in 1..Len(filters) :
              filters[i].method = None \/ filters[i].method \in HTTPmethod
        /\ \A i \in 1..Len(filters') :
              filters'[i].method = None \/ filters'[i].method \in HTTPmethod
      ]_vars

\* add_filter was called with the method "get", which is no HTTP method, on
\* a session that has a rule: the call raised and the rule is still the
\* only one.
C23_Witness ==
    /\ probe.op = "add_filter"
    /\ probe.method = "get"
    /\ probe.raised
    /\ Len(filters) = 1
    /\ filters[1].method = "GET"

\* C24: once close() has cancelled the filler (close() waits for it, or has
\* closed the session), no step pushes a token: pushed stays, the queue
\* never grows, each token that leaves it admits one request, no waiting
\* getter is woken up, and the filler never again is in a position from
\* which it puts.
C24_NoPushAfterClose ==
    [][ (closePc \in {"waiting", "closed"}) =>
          /\ pushed' = pushed
          /\ queue' <= queue
          /\ admitted' - admitted = queue - queue'
          /\ \A r \in Requests : req[r] = "waiting" => req'[r] = "waiting"
          /\ filler.pc \notin {"created", "woken", "sleeping", "blocked"}
          /\ filler'.pc \notin {"created", "woken", "sleeping", "blocked"}
      ]_vars

\* close() has closed a session whose filler had pushed tokens and has
\* ended: the queue is empty and a throttled request waits on it.
C24_Witness ==
    /\ closePc = "closed"
    /\ filler.pc = "finished"
    /\ pushed >= 1
    /\ queue = 0
    /\ \E r \in Requests : req[r] = "waiting"

\* The filter list in another order, and with one rule more than once.
IndexOrders(n) ==
    { p \in [1..n -> 1..n] : \A i, j \in 1..n : p[i] = p[j] => i = j }
Reordered(fs) ==
    { [i \in 1..Len(fs) |-> fs[p[i]]] : p \in IndexOrders(Len(fs)) }
Duplicated(fs) ==
    { SubSeq(fs, 1, k) \o <<fs[i]>> \o SubSeq(fs, k + 1, Len(fs)) :
          i \in 1..Len(fs), k \in 0..Len(fs) }

\* C26: is_limited(method, url) returns the same, for every method and url,
\* on the filter list in any other order and with any rule duplicated at any
\* position; with the rules (GET, "/a") and (None, "/a/b") in either order
\* and limit_filtered true, a GET of "/a/b" is limited; and a call of
\* is_limited changes nothing of the session.
C26_OrderIndependent ==
    [][ /\ \A m \in Methods, u \in Urls :
              \A fs \in Reordered(filters) \cup Duplicated(filters) :
                  IsLimitedOutcome(rate_limit, fs, limit_filtered, m, u)
                      = IsLimitedOutcome(rate_limit, filters, limit_filtered, m, u)
        /\ (/\ rate_limit > 0
            /\ limit_filtered
            /\ Range(filters) = { [method |-> "GET", pattern |-> Str(<<"/", "a">>)],
                                  [method |-> None, pattern |-> Str(<<"/", "a", "/", "b">>)] })
           => IsLimitedOutcome(rate_limit, filters, limit_filtered,
                               "GET", <<"/", "a", "/", "b">>) = Return(TRUE)
        /\ (\E m \in Methods, u \in Urls : IsLimitedCall(m, u)) =>
              UNCHANGED <<config, bucket, req, stats, now, closePc, calls, aside>>
      ]_vars

\* is_limited was called for a GET of "/a/b" on the rules (None, "/a/b"),
\* (GET, "/a"), in the order opposite to the example's, with limit_filtered
\* true, and returned true; the request matches both rules.
C26_Witness ==
    /\ rate_limit > 0
    /\ limit_filtered
    /\ filters = << [method |-> None, pattern |-> Str(<<"/", "a", "/", "b">>)],
                    [method |-> "GET", pattern |-> Str(<<"/", "a">>)] >>
    /\ probe.op = "is_limited"
    /\ probe.method = "GET"
    /\ probe.url = <<"/", "a", "/", "b">>
    /\ probe.outcome = Return(TRUE)

\* C25: on a session with a rate limit that is not closed, the filler task
\* never ends (it is about to run, stopped in put() or asleep), and every
\* request that waits for a token is eventually past Queue.get(), in its
\* HTTP call or ended.
C25_EventualAdmission ==
    /\ []((rate_limit > 0 /\ closePc = "open") =>
             filler.pc \in {"created", "woken", "blocked", "sleeping"})
    /\ \A r \in Requests :
          (rate_limit > 0 /\ closePc = "open" /\ req[r] \in {"waiting", "woken"})
              ~> (req[r] \in {"calling", "done"})

\* Every request has been issued, two were admitted, the second with the
\* token pushed after the filler's first sleep; the queue is empty, the
\* filler sleeps and a request waits for the next token.
C25_Witness ==
    /\ rate_limit > 0
    /\ closePc = "open"
    /\ \A r \in Requests : req[r] # "idle"
    /\ \E r \in Requests : req[r] = "waiting"
    /\ queue = 0
    /\ filler.pc = "sleeping"
    /\ sleeps >= 1
    /\ admitted >= 2

====
